---- MODULE Spec2Model ----
(***************************************************************************)
(* A model of archinfo's measures.py: the six public architecture measures *)
(* (dynamical_mass, mass_partitioning, monotonicity,                       *)
(* characteristic_spacing, gap_complexity, flatness) and their helpers.    *)
(*                                                                         *)
(* The library is stateless, so the state machine is a caller that owns    *)
(* one planetary system (five numpy arrays on a heap) and calls the        *)
(* measures on it.  Each call is one action; `last` records what the       *)
(* caller observed of the most recent call.                                *)
(*                                                                         *)
(* Numbers.  Inputs are positive integers (the data model's "positive      *)
(* real").  Computed values are terms: exact rationals where the code's    *)
(* arithmetic is rational, NaN and Inf as numpy produces them, and         *)
(* expression trees that mirror the source where it takes roots or         *)
(* logarithms.  Floating-point rounding is not modelled.  Indices are      *)
(* 1-based (Python's are 0-based).                                         *)
(***************************************************************************)
EXTENDS Integers, Sequences, FiniteSets, TLC

VARIABLES heap, last

vars == <<heap, last>>

(***************************************************************************)
(* Bounds of the model.                                                    *)
(***************************************************************************)
\* The most planets a system has.
MaxN == 3
\* The largest mass the caller rescales a system to.
MassCeiling == 12

\* The values the caller's arrays and scalar arguments are drawn from.
PeriodValues == {1, 2, 3}
MassValues == {1, 2}
ScaleFactors == {2, 3}
DurValues == {1, 2}
StellarMasses == {1, 2}
StellarDensities == {1}

(***************************************************************************)
(* Terms: the values of numpy floating-point expressions.                  *)
(***************************************************************************)
NaN == [k |-> "nan"]
Inf == [k |-> "inf"]
NoValue == [k |-> "none"]

RECURSIVE GCD(_, _)
GCD(a, b) == IF b = 0 THEN a ELSE GCD(b, a % b)

Abs(x) == IF x < 0 THEN -x ELSE x

\* The rational n/d in lowest terms, d > 0.
Num(n, d) ==
    LET g == GCD(Abs(n), Abs(d))
        s == IF d < 0 THEN -1 ELSE 1
    IN [k |-> "num", n |-> (s * n) \div g, d |-> (s * d) \div g]

\* The integer n.
Lit(n) == [k |-> "num", n |-> n, d |-> 1]
Zero == Lit(0)

\* A named physical constant, kept symbolic.
Sym(name) == [k |-> "sym", name |-> name]

IsNaN(x) == x.k = "nan"
IsInf(x) == x.k = "inf"
IsNum(x) == x.k = "num"
IsZero(x) == x.k = "num" /\ x.n = 0

\* x + y as numpy adds floats.
Add(x, y) ==
    IF IsNaN(x) \/ IsNaN(y) THEN NaN
    ELSE IF IsInf(x) \/ IsInf(y) THEN Inf
    ELSE IF IsNum(x) /\ IsNum(y) THEN Num(x.n * y.d + y.n * x.d, x.d * y.d)
    ELSE IF IsZero(x) THEN y
    ELSE IF IsZero(y) THEN x
    ELSE [k |-> "bin", op |-> "add", a |-> x, b |-> y]

\* x - y; x - x is exactly 0 for finite x.
Sub(x, y) ==
    IF IsNaN(x) \/ IsNaN(y) THEN NaN
    ELSE IF IsInf(x) /\ IsInf(y) THEN NaN
    ELSE IF IsInf(x) \/ IsInf(y) THEN Inf
    ELSE IF IsNum(x) /\ IsNum(y) THEN Num(x.n * y.d - y.n * x.d, x.d * y.d)
    ELSE IF IsZero(y) THEN x
    ELSE IF x = y THEN Zero
    ELSE [k |-> "bin", op |-> "sub", a |-> x, b |-> y]

\* x * y.
Mul(x, y) ==
    IF IsNaN(x) \/ IsNaN(y) THEN NaN
    ELSE IF (IsInf(x) /\ IsZero(y)) \/ (IsZero(x) /\ IsInf(y)) THEN NaN
    ELSE IF IsInf(x) \/ IsInf(y) THEN Inf
    ELSE IF IsNum(x) /\ IsNum(y) THEN Num(x.n * y.n, x.d * y.d)
    ELSE IF IsZero(x) \/ IsZero(y) THEN Zero
    ELSE [k |-> "bin", op |-> "mul", a |-> x, b |-> y]

\* x / y as numpy divides floats: 0/0 is NaN, x/0 is Inf, no exception.
Div(x, y) ==
    IF IsNaN(x) \/ IsNaN(y) THEN NaN
    ELSE IF IsInf(x) /\ IsInf(y) THEN NaN
    ELSE IF IsInf(x) THEN Inf
    ELSE IF IsInf(y) THEN Zero
    ELSE IF IsZero(y) THEN (IF IsZero(x) THEN NaN ELSE Inf)
    ELSE IF IsNum(x) /\ IsNum(y) THEN Num(x.n * y.d, x.d * y.n)
    ELSE IF IsZero(x) THEN Zero
    ELSE [k |-> "bin", op |-> "div", a |-> x, b |-> y]

\* x ** (n/d) for a positive exponent.
Pow(x, n, d) ==
    IF IsNaN(x) THEN NaN
    ELSE IF IsInf(x) THEN Inf
    ELSE IF IsZero(x) THEN Zero
    ELSE IF n = d THEN x
    ELSE IF d = 1 /\ n = 2 /\ IsNum(x) THEN Num(x.n * x.n, x.d * x.d)
    ELSE [k |-> "pow", a |-> x, n |-> n, d |-> d]

\* np.log(x).
Log(x) ==
    IF IsNaN(x) THEN NaN
    ELSE IF IsInf(x) THEN Inf
    ELSE IF IsNum(x) /\ x.n = x.d THEN Zero
    ELSE [k |-> "log", x |-> x]

(***************************************************************************)
(* Arrays.                                                                 *)
(***************************************************************************)
\* An integer input array as an array of terms.
AsTerms(xs) == [i \in 1..Len(xs) |-> Lit(xs[i])]

\* xs[1:] and xs[:-1].
Rest(xs) == [i \in 1..(Len(xs) - 1) |-> xs[i + 1]]
Front(xs) == [i \in 1..(Len(xs) - 1) |-> xs[i]]

RECURSIVE SumInts(_)
SumInts(xs) == IF xs = <<>> THEN 0 ELSE xs[1] + SumInts(Tail(xs))

\* np.sum of an array of terms; the empty sum is 0.
RECURSIVE SumTerms(_)
SumTerms(ts) == IF ts = <<>> THEN Zero ELSE Add(ts[1], SumTerms(Tail(ts)))

\* np.mean: sum / count; the mean of an empty array is NaN (0/0).
Mean(ts) == Div(SumTerms(ts), Lit(Len(ts)))

\* np.std (population normalisation) of an array of terms.
Std(ts) ==
    IF ts = <<>> THEN NaN
    ELSE IF \E i \in 1..Len(ts) : IsNaN(ts[i]) THEN NaN
    ELSE [k |-> "std", v |-> ts]

MaxOf(xs) == CHOOSE m \in {xs[i] : i \in 1..Len(xs)} :
                 \A i \in 1..Len(xs) : xs[i] <= m
MinOf(xs) == CHOOSE m \in {xs[i] : i \in 1..Len(xs)} :
                 \A i \in 1..Len(xs) : m <= xs[i]

\* No sort: the input order is kept.
argsort_Identity(xs) == [i \in 1..Len(xs) |-> i]

\* np.argsort: the index permutation that sorts xs ascending.  For arrays
\* this short numpy's sort is an insertion sort, which keeps equal
\* elements in their input order.
argsort(xs) ==
    LET n == Len(xs)
        rank(j) == 1 + Cardinality({l \in 1..n :
                         xs[l] < xs[j] \/ (xs[l] = xs[j] /\ l < j)})
    IN [i \in 1..n |-> CHOOSE j \in 1..n : rank(j) = i]

\* Fancy indexing xs[order]: a new array.
TakeOrder(xs, order) == [i \in 1..Len(order) |-> xs[order[i]]]

(***************************************************************************)
(* The heap.  The caller owns five arrays; a measure's parameters are      *)
(* references to them.  Indexing with an index array, and np.array,        *)
(* allocate a new array; assigning the result to a parameter name rebinds  *)
(* the local name and leaves the caller's object alone.                    *)
(***************************************************************************)
CallerRefs == {"periods", "masses", "rprs", "dur", "dur_err"}

Alloc(h, ref, xs) == (ref :> xs) @@ h

\* The objects still referenced once the call's frame is gone.
Collect(h) == [r \in CallerRefs |-> h[r]]

(***************************************************************************)
(* What one call did: how it ended, what it returned, the warnings it      *)
(* emitted, the steps it executed, its calls of the LMC collaborator and   *)
(* of the least-squares solver, and the heap it left.                      *)
(***************************************************************************)
Returned(h, value, warned, trace, collab, solver) ==
    [heap |-> h, outcome |-> "returned", exc |-> "", ret |-> value,
     warned |-> warned, trace |-> trace, collab |-> collab, solver |-> solver]

Raised(h, exc, warned, trace, collab, solver) ==
    [heap |-> h, outcome |-> "raised", exc |-> exc, ret |-> NoValue,
     warned |-> warned, trace |-> trace, collab |-> collab, solver |-> solver]

(***************************************************************************)
(* Physical constants, kept symbolic.                                      *)
(***************************************************************************)
MSME == Sym("MSME")
pi == Sym("pi")
\* G = BIGG / RSUN**3 * MSUN * (24*3600)**2
G == Sym("BIGG/RSUN**3*MSUN*(24*3600)**2")
Pearth == Sym("Pearth")
aearth == Sym("aearth")

(***************************************************************************)
(* Functions containing the physics.                                       *)
(***************************************************************************)
\* aearth * ((P/Pearth)**2 * (1/Mstar))**(1/3), element by element.
\* Mstar is a Python float: 1/Mstar would raise for Mstar = 0, which the
\* positive stellar masses of the model never are.
P_to_a(P, Mstar) ==
    [i \in 1..Len(P) |->
        Mul(aearth, Pow(Mul(Pow(Div(P[i], Pearth), 2, 1),
                            Div(Lit(1), Lit(Mstar))),
                        1, 3))]

\* One element of calculate_duration.
DurationAt(period, rho, rprs, cosi) ==
    LET term3 == Pow(Div(Mul(Lit(3), period),
                         Mul(Mul(G, rho), Pow(pi, 2, 1))), 1, 3)
        term2a == Pow(Add(Lit(1), rprs), 2, 1)
        term2b == Pow(Div(Mul(G, rho), Mul(Lit(3), pi)), 2, 3)
        term2c == Mul(Pow(period, 4, 3), Pow(cosi, 2, 1))
        term2 == Pow(Sub(term2a, Mul(term2b, term2c)), 1, 2)
    IN Mul(term3, term2)

\* period and rprs have one entry per planet, cosi has shape (1,) and is
\* broadcast over them.
calculate_duration(period, rho, rprs, cosi) ==
    [i \in 1..Len(period) |-> DurationAt(period[i], rho, rprs[i], cosi[1])]

\* (data_dur - model_dur)/data_err
residuals_for_duration_fit(x0, x1, data_dur, data_err) ==
    LET cosi == x0
        model_dur == calculate_duration(x1.period, x1.rho, x1.rprs, cosi)
    IN [i \in 1..Len(data_dur) |->
           Div(Sub(data_dur[i], model_dur[i]), data_err[i])]

\* np.std(data_dur-model_dur)/np.sqrt(np.mean(data_dur**2))
calculate_flatness(data_dur, model_dur) ==
    LET diff == [i \in 1..Len(data_dur) |-> Sub(data_dur[i], model_dur[i])]
        sq == [i \in 1..Len(data_dur) |-> Pow(data_dur[i], 2, 1)]
    IN Div(Std(diff), Pow(Mean(sq), 1, 2))

(***************************************************************************)
(* Collaborators outside measures.py.                                      *)
(***************************************************************************)
\* LMC.D and LMC.C, the entropy toolkit: each returns a scalar that is a
\* function of the vector it is given.
LMC_D(p) == [k |-> "lmc", fn |-> "D", p |-> p]
LMC_C(p) == [k |-> "lmc", fn |-> "C", p |-> p]

\* stats.spearmanr(x, y)[0]: NaN with fewer than two observations or with a
\* constant input, otherwise the rank correlation.
spearmanr(x, y) ==
    IF Len(x) <= 1 THEN NaN
    ELSE IF (\A i \in 1..Len(x) : x[i] = x[1]) \/ (\A i \in 1..Len(y) : y[i] = y[1])
    THEN NaN
    ELSE [k |-> "spearmanr", xs |-> x, ys |-> y]

\* The statuses op.leastsq reports: 1..4 say the fit converged, 5 says the
\* iteration limit was reached.
LEASTSQ_SUCCESS == {1, 2, 3, 4}
SolverStatuses == {1, 5}
\* The cosines of inclination the solver may come back with.
CosIValues == {Zero, Num(1, 2)}
SolverAnswers == [cosi : CosIValues, ier : SolverStatuses]

\* op.leastsq(func, x0, args): a black box.  It evaluates func at x0, raises
\* TypeError when func returns fewer residuals than there are parameters,
\* and otherwise returns some parameter vector and some status (`answer`).
\* The warning scipy emits with a status outside 1..4 is not recorded.
leastsq(residuals, x0, answer) ==
    IF Len(x0) > Cardinality(DOMAIN residuals)
    THEN [raised |-> TRUE, x0 |-> x0, x |-> x0, ier |-> 0]
    ELSE [raised |-> FALSE, x0 |-> x0, x |-> <<answer.cosi>>, ier |-> answer.ier]

(***************************************************************************)
(* The system-level measures.                                              *)
(***************************************************************************)
\* np.sum(mp)/MSME/Mstar
dynamical_mass(h, mp, Mstar) ==
    Returned(h, Div(Div(SumTerms(AsTerms(h[mp])), MSME), Lit(Mstar)),
             <<>>, <<"np.sum">>, <<>>, <<>>)

\* The masses handed to LMC.D without dividing by their sum.
mass_partitioning_Unnormalised(h, masses) ==
    Returned(h, LMC_D(AsTerms(h[masses])), <<>>, <<"np.sum", "LMC.D">>,
             <<[fn |-> "D", p |-> AsTerms(h[masses])]>>, <<>>)

\* LMC.D(masses/np.sum(masses))
mass_partitioning(h, masses) ==
    LET total == SumTerms(AsTerms(h[masses]))
        p == [i \in 1..Len(h[masses]) |-> Div(Lit(h[masses][i]), total)]
    IN Returned(h, LMC_D(p), <<>>, <<"np.sum", "LMC.D">>,
                <<[fn |-> "D", p |-> p]>>, <<>>)

\* rho*Q**(1/N): N is a Python int, so 1/N raises ZeroDivisionError for N = 0.
monotonicity(h, periods, masses) ==
    LET N == Len(h[periods])
        rho == spearmanr(h[periods], h[masses])
        Q == mass_partitioning(h, masses)
        trace == <<"stats.spearmanr", "mass_partitioning">> \o Q.trace
    IN IF Q.outcome = "raised"
       THEN Raised(Q.heap, Q.exc, Q.warned, trace, Q.collab, <<>>)
       ELSE IF N = 0
       THEN Raised(Q.heap, "ZeroDivisionError", Q.warned, trace, Q.collab, <<>>)
       ELSE Returned(Q.heap, Mul(rho, Pow(Q.ret, 1, N)),
                     Q.warned, trace, Q.collab, <<>>)

\* What a Python function returns when it falls off its end.
None == [k |-> "None"]

\* The guard with its bound off by one.
TooFewForSpacing_OffByOne(n) == n < 1

\* if len(periods) < 2: the spacing is undefined.
TooFewForSpacing(n) == n < 2

\* The guard with its bound off by one.
TooFewForComplexity_OffByOne(n) == n < 2

\* if len(periods) < 3: the complexity is undefined.
TooFewForComplexity(n) == n < 3

\* The warning emitted without looking at the flag.
WarnUndefined_Always(warn, message) == <<message>>

\* if warn: warnings.warn(message)
WarnUndefined(warn, message) == IF warn THEN <<message>> ELSE <<>>

\* x[:] = x[order]: the caller's object is overwritten with the sorted values.
IndexByOrder_InPlace(h, ref, order, fresh) ==
    Alloc([h EXCEPT ![ref] = TakeOrder(h[ref], order)], fresh,
          TakeOrder(h[ref], order))

\* x = x[order]: the indexed copy is a new object `fresh`; the caller's
\* object h[ref] is not written.
IndexByOrder(h, ref, order, fresh) == Alloc(h, fresh, TakeOrder(h[ref], order))

characteristic_spacing(h, periods, mp, Mstar, warn) ==
    IF TooFewForSpacing(Len(h[periods]))
    THEN LET warned == WarnUndefined(warn,
                 "Characteristic spacing is undefined for S < 2; returning NaN")
         IN Returned(h, NaN, warned,
                     [i \in 1..Len(warned) |-> "warnings.warn"], <<>>, <<>>)
    ELSE IF Len(h[periods]) >= 2
    THEN LET order == argsort(h[periods])
             h1 == IndexByOrder(h, periods, order, "periods[order]")
             h2 == IndexByOrder(h1, mp, order, "mp[order]")
             sorted_mp == AsTerms(h2["mp[order]"])
             a == P_to_a(AsTerms(h2["periods[order]"]), Mstar)
             radius_H == [i \in 1..(Len(a) - 1) |->
                 Mul(Pow(Div(Add(Rest(sorted_mp)[i], Front(sorted_mp)[i]),
                             Mul(Mul(Lit(3), Lit(Mstar)), MSME)), 1, 3),
                     Div(Add(Rest(a)[i], Front(a)[i]), Lit(2)))]
             delta_H == [i \in 1..(Len(a) - 1) |->
                 Div(Sub(Rest(a)[i], Front(a)[i]), radius_H[i])]
         IN Returned(h2, Mean(delta_H), <<>>,
                     <<"np.argsort", "P_to_a", "radius_H", "delta_H", "np.mean">>,
                     <<>>, <<>>)
    ELSE Returned(h, None, <<>>, <<>>, <<>>, <<>>)

gap_complexity(h, periods, warn) ==
    IF TooFewForComplexity(Len(h[periods]))
    THEN LET warned == WarnUndefined(warn,
                 "Complexity is undefined for N < 3; returning NaN")
         IN Returned(h, NaN, warned,
                     [i \in 1..Len(warned) |-> "warnings.warn"], <<>>, <<>>)
    ELSE IF Len(h[periods]) >= 3
    THEN LET order == argsort(h[periods])
             h1 == Alloc(h, "np.array(periods)", h[periods])
             h2 == IndexByOrder(h1, "np.array(periods)", order, "P")
             P == h2["P"]
             span == Log(Div(Lit(MaxOf(P)), Lit(MinOf(P))))
             pp == [i \in 1..(Len(P) - 1) |->
                 Div(Log(Div(Lit(Rest(P)[i]), Lit(Front(P)[i]))), span)]
         IN Returned(h2, LMC_C(pp), <<>>,
                     <<"np.argsort", "np.log", "LMC.C">>,
                     <<[fn |-> "C", p |-> pp]>>, <<>>)
    ELSE Returned(h, None, <<>>, <<>>, <<>>, <<>>)

\* NaN returned unless the solver reported convergence.
FlatnessAtFit_StatusChecked(h, periods, rhostar, rprs, dur, fit) ==
    LET model_dur == calculate_duration(AsTerms(h[periods]), Lit(rhostar),
                                        AsTerms(h[rprs]), fit.x)
    IN IF fit.ier \in LEASTSQ_SUCCESS
       THEN calculate_flatness(AsTerms(h[dur]), model_dur)
       ELSE NaN

\* The two statements after the fit: the model durations at the fitted cosi,
\* then the flatness.  fit.ier (the code's `success`) is not read.
FlatnessAtFit(h, periods, rhostar, rprs, dur, fit) ==
    LET cosi == fit.x
        model_dur == calculate_duration(AsTerms(h[periods]), Lit(rhostar),
                                        AsTerms(h[rprs]), cosi)
    IN calculate_flatness(AsTerms(h[dur]), model_dur)

\* `answer` is what the solver comes back with in this call.
flatness(h, periods, rhostar, rprs, dur, dur_err, answer) ==
    LET cosi0 == <<Zero>>
        transit_params == [period |-> AsTerms(h[periods]), rho |-> Lit(rhostar),
                           rprs |-> AsTerms(h[rprs])]
        fit == leastsq(residuals_for_duration_fit(cosi0, transit_params,
                           AsTerms(h[dur]), AsTerms(h[dur_err])),
                       cosi0, answer)
    IN IF fit.raised
       THEN Raised(h, "TypeError", <<>>, <<"op.leastsq">>, <<>>, <<fit>>)
       ELSE Returned(h, FlatnessAtFit(h, periods, rhostar, rprs, dur, fit), <<>>,
                     <<"op.leastsq", "calculate_duration", "calculate_flatness">>,
                     <<>>, <<fit>>)

(***************************************************************************)
(* The caller.                                                             *)
(***************************************************************************)
NoCall ==
    [measure |-> "none", n |-> 0, Mstar |-> 0, warn |-> FALSE, rhostar |-> 0,
     outcome |-> "none", exc |-> "", ret |-> NoValue, warned |-> <<>>,
     trace |-> <<>>, collab |-> <<>>, solver |-> <<>>]

\* What the caller saw of a call of `measure` on n planets that did r.
Observed(measure, n, Mstar, warn, rhostar, r) ==
    [measure |-> measure, n |-> n, Mstar |-> Mstar, warn |-> warn,
     rhostar |-> rhostar, outcome |-> r.outcome, exc |-> r.exc, ret |-> r.ret,
     warned |-> r.warned, trace |-> r.trace, collab |-> r.collab,
     solver |-> r.solver]

ArraysOf(n, S) == [1..n -> S]
Constant(n, v) == [i \in 1..n |-> v]

\* A system described by its orbits: periods and masses vary.
InitOrbit ==
    /\ \E n \in 0..MaxN :
         \E P \in ArraysOf(n, PeriodValues), m \in ArraysOf(n, MassValues) :
            heap = [periods |-> P, masses |-> m, rprs |-> Constant(n, 1),
                    dur |-> Constant(n, 1), dur_err |-> Constant(n, 1)]
    /\ last = NoCall

\* A system described by its transits: periods and durations vary.
InitTransit ==
    /\ \E n \in 0..MaxN :
         \E d \in ArraysOf(n, DurValues) :
            heap = [periods |-> [i \in 1..n |-> i], masses |-> Constant(n, 1),
                    rprs |-> Constant(n, 1), dur |-> d,
                    dur_err |-> Constant(n, 2)]
    /\ last = NoCall

Init == InitOrbit \/ InitTransit

NPlanets == Len(heap["periods"])

CallDynamicalMass ==
    \E Mstar \in StellarMasses :
        \E r \in {dynamical_mass(heap, "masses", Mstar)} :
           /\ heap' = Collect(r.heap)
           /\ last' = Observed("dynamical_mass", NPlanets, Mstar, FALSE, 0, r)

CallMassPartitioning ==
    \E r \in {mass_partitioning(heap, "masses")} :
       /\ heap' = Collect(r.heap)
       /\ last' = Observed("mass_partitioning", NPlanets, 0, FALSE, 0, r)

CallMonotonicity ==
    \E r \in {monotonicity(heap, "periods", "masses")} :
       /\ heap' = Collect(r.heap)
       /\ last' = Observed("monotonicity", NPlanets, 0, FALSE, 0, r)

CallCharacteristicSpacing ==
    \E Mstar \in StellarMasses, warn \in BOOLEAN :
        \E r \in {characteristic_spacing(heap, "periods", "masses", Mstar, warn)} :
           /\ heap' = Collect(r.heap)
           /\ last' = Observed("characteristic_spacing", NPlanets, Mstar, warn, 0, r)

CallGapComplexity ==
    \E warn \in BOOLEAN :
        \E r \in {gap_complexity(heap, "periods", warn)} :
           /\ heap' = Collect(r.heap)
           /\ last' = Observed("gap_complexity", NPlanets, 0, warn, 0, r)

CallFlatness ==
    \E rhostar \in StellarDensities, answer \in SolverAnswers :
        \E r \in {flatness(heap, "periods", rhostar, "rprs", "dur", "dur_err",
                          answer)} :
           /\ heap' = Collect(r.heap)
           /\ last' = Observed("flatness", NPlanets, 0, FALSE, rhostar, r)

Next ==
    \/ CallDynamicalMass
    \/ CallMassPartitioning
    \/ CallMonotonicity
    \/ CallCharacteristicSpacing
    \/ CallGapComplexity
    \/ CallFlatness

Spec == Init /\ [][Next]_vars

(***************************************************************************)
(* A caller that reorders its planets between calls of the two measures    *)
(* that sort by period.                                                    *)
(***************************************************************************)
Swap(xs, i, j) ==
    [l \in 1..Len(xs) |-> IF l = i THEN xs[j] ELSE IF l = j THEN xs[i] ELSE xs[l]]

\* The caller exchanges planets i and j in all of its arrays.
Reorder ==
    \E i \in 1..NPlanets, j \in 1..NPlanets :
        /\ i < j
        /\ heap' = [r \in CallerRefs |-> Swap(heap[r], i, j)]
        /\ UNCHANGED last

NextReorder ==
    \/ CallCharacteristicSpacing
    \/ CallGapComplexity
    \/ Reorder

SpecReorder == InitOrbit /\ [][NextReorder]_vars

(***************************************************************************)
(* A caller that changes the unit of mass between calls of                 *)
(* mass_partitioning.                                                      *)
(***************************************************************************)
InitMasses ==
    /\ \E n \in 0..MaxN :
         \E m \in ArraysOf(n, MassValues) :
            heap = [periods |-> [i \in 1..n |-> i], masses |-> m,
                    rprs |-> Constant(n, 1), dur |-> Constant(n, 1),
                    dur_err |-> Constant(n, 1)]
    /\ last = NoCall

\* The caller multiplies every mass by k.
Rescale ==
    \E k \in ScaleFactors :
        /\ \A i \in 1..NPlanets : k * heap["masses"][i] <= MassCeiling
        /\ heap' = [heap EXCEPT !["masses"] =
                        [i \in 1..NPlanets |-> k * heap["masses"][i]]]
        /\ UNCHANGED last

NextRescale ==
    \/ CallMassPartitioning
    \/ Rescale

SpecRescale == InitMasses /\ [][NextRescale]_vars

(***************************************************************************)
(* Properties.                                                             *)
(***************************************************************************)
IsSpacing == last.measure = "characteristic_spacing"
IsComplexity == last.measure = "gap_complexity"
IsFlatness == last.measure = "flatness"
IsPartitioning == last.measure = "mass_partitioning"

Ascending(xs) == \A i \in 1..(Len(xs) - 1) : xs[i] <= xs[i + 1]

\* The periods in ascending order, whatever order they are held in.
SortedPeriods(P) ==
    LET n == Len(P)
        count(v) == Cardinality({i \in 1..n : P[i] = v})
        below(v) == Cardinality({i \in 1..n : P[i] < v})
    IN [i \in 1..n |->
           CHOOSE v \in {P[l] : l \in 1..n} : below(v) < i /\ i <= below(v) + count(v)]

\* ln(s[i+1]/s[i]) / ln(s[n]/s[1]) over the ascending periods s.
GapFractions(P) ==
    LET s == SortedPeriods(P)
        n == Len(P)
    IN [i \in 1..(n - 1) |->
           Div(Log(Div(Lit(s[i + 1]), Lit(s[i]))),
               Log(Div(Lit(s[n]), Lit(s[1]))))]

\* C1: every call of a public measure, the empty system included, ends by
\* returning a value and never by raising an exception.
C1_NeverRaises == last.outcome # "raised"

\* C2: a call of characteristic_spacing on fewer than 2 periods returns NaN
\* without raising, whatever Mstar and warn are, and executes neither the
\* sort nor the semimajor-axis conversion nor the Hill-radius computation.
C2_SpacingUndefinedBelowTwo ==
    (IsSpacing /\ last.n < 2) =>
        /\ last.outcome = "returned"
        /\ last.ret = NaN
        /\ \A i \in 1..Len(last.trace) :
               last.trace[i] \notin {"np.argsort", "P_to_a", "radius_H",
                                     "delta_H", "np.mean"}

C2_Witness ==
    /\ IsSpacing /\ last.n = 1 /\ last.Mstar = 2 /\ ~last.warn
    /\ last.outcome = "returned" /\ last.ret = NaN

\* C3: a call of gap_complexity on fewer than 3 periods returns NaN without
\* raising and without calling LMC.C; a call on 3 or more returns LMC.C of
\* the gap-fraction vector, which has NPlanets-1 entries.
C3_ComplexityUndefinedBelowThree ==
    IsComplexity =>
        /\ last.outcome = "returned"
        /\ IF last.n < 3
           THEN last.ret = NaN /\ last.collab = <<>>
           ELSE /\ last.collab = <<[fn |-> "C", p |-> GapFractions(heap["periods"])]>>
                /\ Len(last.collab[1].p) = last.n - 1
                /\ last.ret = LMC_C(last.collab[1].p)

C3_Witness ==
    /\ IsComplexity /\ last.n = 3 /\ ~Ascending(heap["periods"])
    /\ last.outcome = "returned" /\ last.ret.k = "lmc"

C5_InputsUntouched == [][heap' = heap]_vars

C5_Witness ==
    /\ IsSpacing /\ last.n >= 2 /\ last.outcome = "returned"
    /\ ~Ascending(heap["periods"])

\* C6: characteristic_spacing returns the same value after the caller has
\* reordered its planets (periods and masses jointly), equal periods
\* included.
C6_SpacingOrderInvariant ==
    [][(/\ IsSpacing /\ last.n >= 2 /\ last.outcome = "returned"
        /\ last'.measure = "characteristic_spacing"
        /\ last'.Mstar = last.Mstar)
       => (last'.outcome = "returned" /\ last'.ret = last.ret)]_vars

\* C7: gap_complexity hands LMC.C the same gap-fraction vector, the adjacent
\* log-period ratios of the ascending periods over ln(Pmax/Pmin), after the
\* caller has reordered its planets, and so returns the same value.
C7_ComplexityOrderInvariant ==
    [][(/\ IsComplexity /\ last.n >= 3
        /\ last'.measure = "gap_complexity")
       => /\ last'.collab = <<[fn |-> "C", p |-> GapFractions(heap'["periods"])]>>
          /\ last'.collab = last.collab
          /\ last'.outcome = "returned"
          /\ last'.ret = last.ret]_vars

C7_Witness ==
    /\ IsComplexity /\ last.n >= 3 /\ last.outcome = "returned"
    /\ ~Ascending(heap["periods"])
    /\ last.collab = <<[fn |-> "C", p |-> GapFractions(heap["periods"])]>>

Converged(c) == c.solver[1].ier \in LEASTSQ_SUCCESS

\* C8 as claimed: what a flatness call returns tells its caller whether the
\* solver converged: two calls that return the same do not differ in it.
C8_StatusReported ==
    [][(/\ IsFlatness /\ last.outcome = "returned"
        /\ last'.measure = "flatness" /\ last'.outcome = "returned"
        /\ last'.ret = last.ret)
       => (Converged(last') <=> Converged(last))]_vars

\* C8 as amended: the solver's status reaches flatness and is dropped there:
\* two flatness calls on the same inputs whose solver came back with the same
\* cosi return the same value, whatever status came with it.
C8_StatusDiscarded ==
    [][(/\ IsFlatness /\ last.outcome = "returned"
        /\ last'.measure = "flatness" /\ last'.outcome = "returned"
        /\ last'.rhostar = last.rhostar
        /\ last'.solver[1].x = last.solver[1].x)
       => last'.ret = last.ret]_vars

C8_Witness ==
    /\ IsFlatness /\ last.outcome = "returned" /\ last.n >= 2
    /\ ~Converged(last) /\ last.ret # NaN

C10_SingleSeededFit ==
    IsFlatness =>
        /\ Len(last.solver) = 1
        /\ last.solver[1].x0 = <<Zero>>
        /\ last.trace = <<"op.leastsq", "calculate_duration", "calculate_flatness">>
        /\ last.outcome = "returned"
        /\ last.ret = calculate_flatness(AsTerms(heap["dur"]),
               calculate_duration(AsTerms(heap["periods"]), Lit(last.rhostar),
                                  AsTerms(heap["rprs"]), last.solver[1].x))

====
